---- MODULE Spec2Model ----
(***************************************************************************)
(* Model of ext/js/comm/cross-frame-api.js: the CrossFrameAPIPort channel  *)
(* (invocation table, two-phase timers, ack/result protocol, disconnect)   *)
(* and the CrossFrameAPI registry of channels keyed by (tabId, frameId).   *)
(*                                                                         *)
(* Every channel object is one record of the variable ports.  The fields   *)
(* port, otherTabId, otherFrameId, activeInvocations, invocationId,        *)
(* eventListeners and events are the object's own fields.  The remaining   *)
(* fields are the part of the JavaScript runtime and of the transport that *)
(* belongs to the channel: the armed timers, the promise continuations     *)
(* that were called, the postMessage calls, the pending handler callbacks  *)
(* and the notifications that were emitted; queue holds the messages the   *)
(* transport has in flight towards the channel when its other end is a     *)
(* channel of ports too.  The variable returned holds what the last calls  *)
(* of registerHandlers and unregisterHandler did.                          *)
(***************************************************************************)
EXTENDS Naturals, Integers, Sequences, FiniteSets, Bags, TLC

VARIABLES ports, commPorts, messageHandlers, requests, returned

vars == <<ports, commPorts, messageHandlers, requests, returned>>

\* ------------------------------------------------------------------ bounds

\* invoke() calls made on one channel plus invoke messages its peer sends to it
MaxTraffic == 3
\* channel objects constructed by one registry
MaxPorts == 2
\* _getOrCreateCommPort calls made on one registry
MaxRequests == 2
\* calls of the completion callback one handler makes for one inbound invoke
MaxCallbackCalls == 2
\* entries of the iterable one registerHandlers call is given
MaxEntries == 2
\* invoke() calls made on the two ends of one transport together
MaxPairInvokes == 2

\* -------------------------------------------------------------- input sets

Null == "null"

\* action names with a registered handler, the names a peer may ask for (one
\* has no handler) and the names a caller of invoke uses
Actions == {"a", "b"}
PeerActions == Actions \cup {"c"}
CallerActions == {"a"}

\* a timeout argument of CrossFrameAPIPort.invoke: a duration or null
AckTimeouts == {Null, "3000 ms"}
ResponseTimeouts == {Null, "10000 ms"}

TabIds == {1}
FrameIds == {1, 2}

\* the handlers: one that completes synchronously, one asynchronously
Handlers == {[async |-> FALSE], [async |-> TRUE]}

\* the iterables of [key, value] given to registerHandlers
HandlerEntries == UNION {[1..n -> PeerActions \X Handlers] : n \in 1..MaxEntries}

\* what the last registerHandlers call and the last unregisterHandler call
\* did, before any such call: returned holds "returned" or "threw" for the
\* first and the Boolean that was returned, as a string, for the second
NoCalls == [registerHandlers |-> Null, unregisterHandler |-> Null]

\* invocation ids a peer may name in ack and result messages: every id the
\* channel can allocate, and one it never allocates
PeerIds == 0..MaxTraffic

\* the data of a result message: exactly one of result / error is present
ResultData == {[result |-> "value", error |-> Null], [result |-> Null, error |-> "peer error"]}

\* ------------------------------------------------------------------ helpers

Restrict(f, S) == [x \in S |-> f[x]]

\* an Error object, or a value that is not an instance of Error
ErrorObject(message) == [instanceofError |-> TRUE, message |-> message, action |-> Null]
NotAnError(message) == [instanceofError |-> FALSE, message |-> message, action |-> Null]

\* ---------------------------------------------------------------- runtime

\* the handle of the timer an invocation owns: its id and its phase
Handle(id, phase) == <<id, phase>>

\* setTimeout: one more armed timer
SetTimeout(c, handle) == [c EXCEPT !.timers = @ (+) SetToBag({handle})]

\* clearTimeout: the timer of that handle, if still armed, is cancelled
ClearTimeout(c, handle) ==
    IF BagIn(handle, c.timers) THEN [c EXCEPT !.timers = @ (-) SetToBag({handle})] ELSE c

\* invocation.resolve(value) / invocation.reject(error): one call of the
\* continuation of invoke() call number `call`, whose promise is then no
\* longer pending
CallContinuation(c, call, fn, value) ==
    [c EXCEPT !.settled[call] = Append(@, [fn |-> fn, value |-> value]),
              !.pending = Restrict(@, DOMAIN @ \ {call})]

\* port.postMessage(message): the transport accepts the write or throws.  The
\* calls are kept in the order they were made, the invoke messages in
\* writes.invoke and the ack and result messages in writes.response
PostMessage(c, message, throws) ==
    LET write == [type |-> message.type, id |-> message.id, accepted |-> ~throws]
    IN IF message.type = "invoke"
       THEN [c EXCEPT !.writes.invoke = Append(@, write)]
       ELSE [c EXCEPT !.writes.response = Append(@, write)]

\* the postMessage calls for ack(id) and for result(id), as positions of the log
Writes(c, type, id) ==
    {i \in DOMAIN c.writes.response : c.writes.response[i].type = type /\ c.writes.response[i].id = id}

\* ------------------------------------------------------- CrossFrameAPIPort

\* constructor, with the transport open and no listener attached yet
NewCrossFrameAPIPort(tabId, frameId) ==
    [port |-> "port", otherTabId |-> tabId, otherFrameId |-> frameId,
     activeInvocations |-> <<>>, invocationId |-> 0,
     eventListeners |-> FALSE, events |-> FALSE,
     transportOpen |-> TRUE, timers |-> EmptyBag, settled |-> <<>>, pending |-> <<>>,
     writes |-> [invoke |-> <<>>, response |-> <<>>],
     inbound |-> 0, callbacks |-> {}, emitted |-> <<>>, disconnectCalled |-> FALSE,
     queue |-> <<>>]

\* prepare(): listen to the transport's onDisconnect and onMessage
Prepare(c) == [c EXCEPT !.eventListeners = TRUE]

\* _onError without the clearTimeout of invocation.timer
OnErrorKeepsTimer(c, id, error) ==
    IF id \notin DOMAIN c.activeInvocations THEN c
    ELSE LET invocation == c.activeInvocations[id]
             e == IF error.instanceofError THEN error
                  ELSE [instanceofError |-> TRUE, message |-> error.message,
                        action |-> invocation.action]
             c1 == [c EXCEPT !.activeInvocations = Restrict(@, DOMAIN @ \ {id})]
         IN CallContinuation(c1, invocation.call, "reject", e)

\* _onError(id, error)
OnError(c, id, error) ==
    IF id \notin DOMAIN c.activeInvocations THEN c
    ELSE LET invocation == c.activeInvocations[id]
             e == IF error.instanceofError THEN error
                  ELSE [instanceofError |-> TRUE, message |-> error.message,
                        action |-> invocation.action]
             c1 == [c EXCEPT !.activeInvocations = Restrict(@, DOMAIN @ \ {id})]
             c2 == IF invocation.timer # Null
                   THEN ClearTimeout(c1, Handle(id, invocation.timer)) ELSE c1
         IN CallContinuation(c2, invocation.call, "reject", e)

\* invoke taking the id from the size of the table instead of the counter
PortInvokeReusesId(c, action, ackTimeout, responseTimeout, setTimeoutThrows, postMessageThrows) ==
    LET call == Len(c.settled) + 1
        promise == [ackTimeout |-> ackTimeout, responseTimeout |-> responseTimeout]
        c0 == [c EXCEPT !.settled = Append(@, <<>>), !.pending = @ @@ (call :> promise)]
    IN IF c.port = Null
       THEN CallContinuation(c0, call, "reject",
                [instanceofError |-> TRUE, message |-> "Port is disconnected", action |-> action])
       ELSE LET id == Cardinality(DOMAIN c.activeInvocations)
                invocation == [id |-> id, call |-> call, responseTimeout |-> responseTimeout,
                               action |-> action, ack |-> FALSE, timer |-> Null]
                c1 == [c0 EXCEPT !.invocationId = @ + 1,
                                 !.activeInvocations = (id :> invocation) @@ @]
                c2 == IF ackTimeout # Null
                      THEN [SetTimeout(c1, Handle(id, "ack"))
                               EXCEPT !.activeInvocations[id].timer = "ack"]
                      ELSE c1
                message == [type |-> "invoke", id |-> id, data |-> [action |-> action]]
            IN IF ackTimeout # Null /\ setTimeoutThrows
               THEN OnError(c1, id, NotAnError("Failed to set timeout"))
               ELSE IF postMessageThrows
                    THEN OnError(PostMessage(c2, message, TRUE), id, ErrorObject("postMessage failed"))
                    ELSE PostMessage(c2, message, FALSE)

\* invoke without the check of this._port: the write on the null transport
\* throws and the catch fails the invocation it has just tracked
PortInvokeNoPortCheck(c, action, ackTimeout, responseTimeout, setTimeoutThrows, postMessageThrows) ==
    LET call == Len(c.settled) + 1
        promise == [ackTimeout |-> ackTimeout, responseTimeout |-> responseTimeout]
        c0 == [c EXCEPT !.settled = Append(@, <<>>), !.pending = @ @@ (call :> promise)]
        id == c.invocationId
        invocation == [id |-> id, call |-> call, responseTimeout |-> responseTimeout,
                       action |-> action, ack |-> FALSE, timer |-> Null]
        c1 == [c0 EXCEPT !.invocationId = @ + 1,
                         !.activeInvocations = @ @@ (id :> invocation)]
        c2 == IF ackTimeout # Null
              THEN [SetTimeout(c1, Handle(id, "ack"))
                       EXCEPT !.activeInvocations[id].timer = "ack"]
              ELSE c1
        message == [type |-> "invoke", id |-> id, data |-> [action |-> action]]
    IN IF ackTimeout # Null /\ setTimeoutThrows
       THEN OnError(c1, id, NotAnError("Failed to set timeout"))
       ELSE IF postMessageThrows \/ c.port = Null
            THEN OnError(PostMessage(c2, message, TRUE), id, ErrorObject("postMessage failed"))
            ELSE PostMessage(c2, message, FALSE)

\* invoke that drops the transport when the write of the message is rejected
PortInvokeDropsPort(c, action, ackTimeout, responseTimeout, setTimeoutThrows, postMessageThrows) ==
    LET call == Len(c.settled) + 1
        promise == [ackTimeout |-> ackTimeout, responseTimeout |-> responseTimeout]
        c0 == [c EXCEPT !.settled = Append(@, <<>>), !.pending = @ @@ (call :> promise)]
    IN IF c.port = Null
       THEN CallContinuation(c0, call, "reject",
                [instanceofError |-> TRUE, message |-> "Port is disconnected", action |-> action])
       ELSE LET id == c.invocationId
                invocation == [id |-> id, call |-> call, responseTimeout |-> responseTimeout,
                               action |-> action, ack |-> FALSE, timer |-> Null]
                c1 == [c0 EXCEPT !.invocationId = @ + 1,
                                 !.activeInvocations = @ @@ (id :> invocation)]
                c2 == IF ackTimeout # Null
                      THEN [SetTimeout(c1, Handle(id, "ack"))
                               EXCEPT !.activeInvocations[id].timer = "ack"]
                      ELSE c1
                message == [type |-> "invoke", id |-> id, data |-> [action |-> action]]
            IN IF ackTimeout # Null /\ setTimeoutThrows
               THEN OnError(c1, id, NotAnError("Failed to set timeout"))
               ELSE IF postMessageThrows
                    THEN [OnError(PostMessage(c2, message, TRUE), id, ErrorObject("postMessage failed"))
                             EXCEPT !.port = Null]
                    ELSE PostMessage(c2, message, FALSE)

\* invoke(action, params, ackTimeout, responseTimeout); setTimeoutThrows and
\* postMessageThrows are the outcomes of the two calls the code guards with try
PortInvoke(c, action, ackTimeout, responseTimeout, setTimeoutThrows, postMessageThrows) ==
    LET call == Len(c.settled) + 1
        promise == [ackTimeout |-> ackTimeout, responseTimeout |-> responseTimeout]
        c0 == [c EXCEPT !.settled = Append(@, <<>>), !.pending = @ @@ (call :> promise)]
    IN IF c.port = Null
       THEN CallContinuation(c0, call, "reject",
                [instanceofError |-> TRUE, message |-> "Port is disconnected", action |-> action])
       ELSE LET id == c.invocationId
                invocation == [id |-> id, call |-> call, responseTimeout |-> responseTimeout,
                               action |-> action, ack |-> FALSE, timer |-> Null]
                c1 == [c0 EXCEPT !.invocationId = @ + 1,
                                 !.activeInvocations = @ @@ (id :> invocation)]
                c2 == IF ackTimeout # Null
                      THEN [SetTimeout(c1, Handle(id, "ack"))
                               EXCEPT !.activeInvocations[id].timer = "ack"]
                      ELSE c1
                message == [type |-> "invoke", id |-> id, data |-> [action |-> action]]
            IN IF ackTimeout # Null /\ setTimeoutThrows
               THEN OnError(c1, id, NotAnError("Failed to set timeout"))
               ELSE IF postMessageThrows
                    THEN OnError(PostMessage(c2, message, TRUE), id, ErrorObject("postMessage failed"))
                    ELSE PostMessage(c2, message, FALSE)

\* _onAck without the check of invocation.ack
OnAckNoAckCheck(c, id, setTimeoutThrows) ==
    IF id \notin DOMAIN c.activeInvocations THEN c
    ELSE LET invocation == c.activeInvocations[id]
             c1 == [c EXCEPT !.activeInvocations[id].ack = TRUE]
             c2 == IF invocation.timer # Null
                   THEN [ClearTimeout(c1, Handle(id, invocation.timer))
                            EXCEPT !.activeInvocations[id].timer = Null]
                   ELSE c1
         IN IF invocation.responseTimeout = Null THEN c2
            ELSE IF setTimeoutThrows
                 THEN OnError(c2, id, NotAnError("Failed to set timeout"))
                 ELSE [SetTimeout(c2, Handle(id, "response"))
                          EXCEPT !.activeInvocations[id].timer = "response"]

\* _onAck that clears the ack timer and arms no response timer
OnAckNoResponseTimer(c, id, setTimeoutThrows) ==
    IF id \notin DOMAIN c.activeInvocations THEN c
    ELSE LET invocation == c.activeInvocations[id]
         IN IF invocation.ack
            THEN OnError(c, id, NotAnError("Request already acknowledged"))
            ELSE LET c1 == [c EXCEPT !.activeInvocations[id].ack = TRUE]
                 IN IF invocation.timer # Null
                    THEN [ClearTimeout(c1, Handle(id, invocation.timer))
                             EXCEPT !.activeInvocations[id].timer = Null]
                    ELSE c1

\* _onAck that arms the response timer and does not clear the ack timer
OnAckKeepsAckTimer(c, id, setTimeoutThrows) ==
    IF id \notin DOMAIN c.activeInvocations THEN c
    ELSE LET invocation == c.activeInvocations[id]
         IN IF invocation.ack
            THEN OnError(c, id, NotAnError("Request already acknowledged"))
            ELSE LET c1 == [c EXCEPT !.activeInvocations[id].ack = TRUE]
                 IN IF invocation.responseTimeout = Null THEN c1
                    ELSE IF setTimeoutThrows
                         THEN OnError(c1, id, NotAnError("Failed to set timeout"))
                         ELSE [SetTimeout(c1, Handle(id, "response"))
                                  EXCEPT !.activeInvocations[id].timer = "response"]

\* _onAck(id)
OnAck(c, id, setTimeoutThrows) ==
    IF id \notin DOMAIN c.activeInvocations THEN c
    ELSE LET invocation == c.activeInvocations[id]
         IN IF invocation.ack
            THEN OnError(c, id, NotAnError("Request already acknowledged"))
            ELSE LET c1 == [c EXCEPT !.activeInvocations[id].ack = TRUE]
                     c2 == IF invocation.timer # Null
                           THEN [ClearTimeout(c1, Handle(id, invocation.timer))
                                    EXCEPT !.activeInvocations[id].timer = Null]
                           ELSE c1
                 IN IF invocation.responseTimeout = Null THEN c2
                    ELSE IF setTimeoutThrows
                         THEN OnError(c2, id, NotAnError("Failed to set timeout"))
                         ELSE [SetTimeout(c2, Handle(id, "response"))
                                  EXCEPT !.activeInvocations[id].timer = "response"]

\* _onResult without the delete of the table entry
OnResultKeepsEntry(c, id, data) ==
    IF id \notin DOMAIN c.activeInvocations THEN c
    ELSE LET invocation == c.activeInvocations[id]
         IN IF ~invocation.ack
            THEN OnError(c, id, NotAnError("Request not acknowledged"))
            ELSE LET c2 == IF invocation.timer # Null
                           THEN ClearTimeout(c, Handle(id, invocation.timer)) ELSE c
                 IN IF data.error # Null
                    THEN CallContinuation(c2, invocation.call, "reject",
                             [instanceofError |-> TRUE, message |-> data.error, action |-> Null])
                    ELSE CallContinuation(c2, invocation.call, "resolve",
                             [instanceofError |-> FALSE, message |-> data.result, action |-> Null])

\* _onResult without the check of invocation.ack
OnResultNoAckCheck(c, id, data) ==
    IF id \notin DOMAIN c.activeInvocations THEN c
    ELSE LET invocation == c.activeInvocations[id]
             c1 == [c EXCEPT !.activeInvocations = Restrict(@, DOMAIN @ \ {id})]
             c2 == IF invocation.timer # Null
                   THEN ClearTimeout(c1, Handle(id, invocation.timer)) ELSE c1
         IN IF data.error # Null
            THEN CallContinuation(c2, invocation.call, "reject",
                     [instanceofError |-> TRUE, message |-> data.error, action |-> Null])
            ELSE CallContinuation(c2, invocation.call, "resolve",
                     [instanceofError |-> FALSE, message |-> data.result, action |-> Null])

\* _onResult(id, data)
OnResult(c, id, data) ==
    IF id \notin DOMAIN c.activeInvocations THEN c
    ELSE LET invocation == c.activeInvocations[id]
         IN IF ~invocation.ack
            THEN OnError(c, id, NotAnError("Request not acknowledged"))
            ELSE LET c1 == [c EXCEPT !.activeInvocations = Restrict(@, DOMAIN @ \ {id})]
                     c2 == IF invocation.timer # Null
                   THEN ClearTimeout(c1, Handle(id, invocation.timer)) ELSE c1
                 IN IF data.error # Null
                    THEN CallContinuation(c2, invocation.call, "reject",
                             [instanceofError |-> TRUE, message |-> data.error, action |-> Null])
                    ELSE CallContinuation(c2, invocation.call, "resolve",
                             [instanceofError |-> FALSE, message |-> data.result, action |-> Null])

\* _sendResponse without the check of this._port
SendResponseNoPortCheck(c, message, throws) == PostMessage(c, message, throws)

\* _sendResponse(data): nothing once disconnected; a rejected write is swallowed
SendResponse(c, message, throws) ==
    IF c.port = Null THEN c ELSE PostMessage(c, message, throws)

\* _sendAck(id)
SendAck(c, id, throws) == SendResponse(c, [type |-> "ack", id |-> id], throws)

\* _sendResult(id, data)
SendResult(c, id, data, throws) ==
    SendResponse(c, [type |-> "result", id |-> id, data |-> data], throws)

\* _sendError(id, error)
SendError(c, id, throws) ==
    SendResponse(c, [type |-> "result", id |-> id,
                     data |-> [result |-> Null, error |-> "Unknown action"]], throws)

\* the for loop of _onDisconnect: _onError(id, 'Disconnected') for every key
RECURSIVE FailAll(_, _)
FailAll(c, ids) ==
    IF ids = {} THEN c
    ELSE LET id == CHOOSE x \in ids : TRUE
         IN FailAll(OnError(c, id, NotAnError("Disconnected")), ids \ {id})

\* _onDisconnect that triggers the event before it fails the invocations
PortOnDisconnectTriggersFirst(c) ==
    IF c.port = Null THEN c
    ELSE LET c1 == [c EXCEPT !.eventListeners = FALSE, !.port = Null,
                             !.emitted = Append(@, DOMAIN c.activeInvocations)]
         IN FailAll(c1, DOMAIN c1.activeInvocations)

\* _onDisconnect without the check of this._port
PortOnDisconnectNoGuard(c) ==
    LET c1 == [c EXCEPT !.eventListeners = FALSE, !.port = Null]
        c2 == FailAll(c1, DOMAIN c1.activeInvocations)
    IN [c2 EXCEPT !.emitted = Append(@, DOMAIN c2.activeInvocations)]

\* _onDisconnect() up to the trigger of the 'disconnect' event
PortOnDisconnect(c) ==
    IF c.port = Null THEN c
    ELSE LET c1 == [c EXCEPT !.eventListeners = FALSE, !.port = Null]
             c2 == FailAll(c1, DOMAIN c1.activeInvocations)
         IN [c2 EXCEPT !.emitted = Append(@, DOMAIN c2.activeInvocations)]

\* invokeMessageHandler(messageHandler, params, callback): a synchronous handler
\* has called the callback with its result or its error when the call returns;
\* an asynchronous handler calls it later
InvokeMessageHandler(c, id, messageHandler, data, throws) ==
    IF messageHandler.async
    THEN [c EXCEPT !.callbacks = @ \cup {id}]
    ELSE SendResult(c, id, data, throws)

\* _onInvoke that sends the ack after the handler was dispatched
OnInvokeAckLast(c, handlers, id, action, data, ackThrows, resultThrows) ==
    LET c1 == IF action \notin DOMAIN handlers
              THEN SendError(c, id, resultThrows)
              ELSE InvokeMessageHandler(c, id, handlers[action], data, resultThrows)
    IN SendAck(c1, id, ackThrows)

\* _onInvoke that sends the ack a second time after the handler was dispatched
OnInvokeAcksTwice(c, handlers, id, action, data, ackThrows, resultThrows) ==
    LET c1 == SendAck(c, id, ackThrows)
        c2 == IF action \notin DOMAIN handlers
              THEN SendError(c1, id, resultThrows)
              ELSE InvokeMessageHandler(c1, id, handlers[action], data, resultThrows)
    IN SendAck(c2, id, ackThrows)

\* _onInvoke(id, {action, params}); handlers is the shared table _messageHandlers
OnInvoke(c, handlers, id, action, data, ackThrows, resultThrows) ==
    LET c1 == SendAck(c, id, ackThrows)
    IN IF action \notin DOMAIN handlers
       THEN SendError(c1, id, resultThrows)
       ELSE InvokeMessageHandler(c1, id, handlers[action], data, resultThrows)

\* _onMessage(details): dispatch on the message type; other types are ignored
OnMessage(c, handlers, details, data, throws1, throws2) ==
    CASE details.type = "invoke" -> OnInvoke(c, handlers, details.id, details.action, data, throws1, throws2)
      [] details.type = "ack" -> OnAck(c, details.id, throws1)
      [] details.type = "result" -> OnResult(c, details.id, details.data)
      [] OTHER -> c

\* ------------------------------------------------------------ CrossFrameAPI

\* registerHandlers that sets every entry without the check of has(key)
RegisterHandlersReplaces(handlers, entries) ==
    LET keys == {entries[i][1] : i \in DOMAIN entries}
        last(key) == CHOOSE i \in DOMAIN entries :
                         /\ entries[i][1] = key
                         /\ \A j \in DOMAIN entries : entries[j][1] = key => j <= i
    IN [messageHandlers |-> [key \in DOMAIN handlers \cup keys |->
                                IF key \in keys THEN entries[last(key)][2] ELSE handlers[key]],
        threw |-> FALSE]

\* registerHandlers(messageHandlers): the loop over the entries; it throws at
\* the first key the table has, and the entries before that one stay set
RECURSIVE RegisterHandlers(_, _)
RegisterHandlers(handlers, entries) ==
    IF entries = <<>> THEN [messageHandlers |-> handlers, threw |-> FALSE]
    ELSE LET key == Head(entries)[1]
             value == Head(entries)[2]
         IN IF key \in DOMAIN handlers
            THEN [messageHandlers |-> handlers, threw |-> TRUE]
            ELSE RegisterHandlers(handlers @@ (key :> value), Tail(entries))

\* unregisterHandler(key): Map.delete removes the entry and returns whether
\* the key was present
UnregisterHandler(handlers, key) ==
    [messageHandlers |-> Restrict(handlers, DOMAIN handlers \ {key}),
     returned |-> key \in DOMAIN handlers]

\* Map.get of the two-level map _commPorts: the channel of a key, or 0
GetCommPort(cp, tabId, frameId) ==
    IF tabId \in DOMAIN cp /\ frameId \in DOMAIN cp[tabId] THEN cp[tabId][frameId] ELSE 0

\* CrossFrameAPI._onDisconnect that leaves the tab's entry when it is empty
ApiOnDisconnectNoPrune(cp, c) ==
    IF c.otherTabId \notin DOMAIN cp THEN cp
    ELSE [cp EXCEPT ![c.otherTabId] = Restrict(@, DOMAIN @ \ {c.otherFrameId})]

\* CrossFrameAPI._onDisconnect(commPort): delete the key's entry, prune the tab
ApiOnDisconnect(cp, c) ==
    IF c.otherTabId \notin DOMAIN cp THEN cp
    ELSE LET tabPorts == Restrict(cp[c.otherTabId], DOMAIN cp[c.otherTabId] \ {c.otherFrameId})
         IN IF DOMAIN tabPorts = {}
            THEN Restrict(cp, DOMAIN cp \ {c.otherTabId})
            ELSE [cp EXCEPT ![c.otherTabId] = tabPorts]

\* _setupCommPort(otherTabId, otherFrameId, port): the new channel is the next
\* element of ports
SetupCommPort(ps, cp, tabId, frameId) ==
    LET commPort == NewCrossFrameAPIPort(tabId, frameId)
        cp1 == IF tabId \notin DOMAIN cp THEN cp @@ (tabId :> <<>>) ELSE cp
        cp2 == [cp1 EXCEPT ![tabId] = (frameId :> (Len(ps) + 1)) @@ @]
    IN [ports |-> Append(ps, [Prepare(commPort) EXCEPT !.events = TRUE]), commPorts |-> cp2]

\* the names a connecting transport can carry
PortNames ==
    {[json |-> FALSE, name |-> "", otherTabId |-> 0, otherFrameId |-> 0],
     [json |-> TRUE, name |-> "other", otherTabId |-> 0, otherFrameId |-> 0]}
    \cup {[json |-> TRUE, name |-> "cross-frame-communication-port",
           otherTabId |-> t, otherFrameId |-> f] : t \in TabIds, f \in FrameIds}

\* _onConnect(port): a name that does not parse or names something else is
\* ignored.  _setupCommPort does not throw for a transport that just arrived
\* (prepare finds _port set), so the catch that disconnects it is not taken
OnConnect(ps, cp, details) ==
    IF ~details.json THEN [ports |-> ps, commPorts |-> cp]
    ELSE IF details.name # "cross-frame-communication-port" THEN [ports |-> ps, commPorts |-> cp]
    ELSE SetupCommPort(ps, cp, details.otherTabId, details.otherFrameId)

\* _getOrCreateCommPort(otherTabId, otherFrameId) up to its return or its await
\* of the broker: the call as a record, its pc the place it stands at.
\* concurrent holds the earlier calls for the same key still awaiting the broker
GetOrCreateCommPort(rs, cp, tabId, frameId) ==
    LET commPort == GetCommPort(cp, tabId, frameId)
        call == [otherTabId |-> tabId, otherFrameId |-> frameId, pc |-> "returned",
                 commPort |-> commPort, broker |-> "none", concurrent |-> {}]
    IN IF commPort # 0 THEN call
       ELSE [call EXCEPT !.pc = "openCrossFramePort", !.broker = "requested",
                         !.concurrent = {r \in DOMAIN rs :
                                            /\ rs[r].pc = "openCrossFramePort"
                                            /\ rs[r].otherTabId = tabId
                                            /\ rs[r].otherFrameId = frameId}]

\* _createCommPort after its await: return the registered channel or throw
CreateCommPort(call, cp) ==
    LET commPort == GetCommPort(cp, call.otherTabId, call.otherFrameId)
    IN IF commPort # 0 THEN [call EXCEPT !.pc = "returned", !.commPort = commPort]
       ELSE [call EXCEPT !.pc = "threw"]

\* CrossFrameAPIPort._onDisconnect() with the listeners of its 'disconnect' event
Disconnected(ps, cp, p) ==
    LET c == PortOnDisconnect(ps[p])
        triggered == Len(c.emitted) > Len(ps[p].emitted)
    IN IF triggered /\ c.events
       THEN [ports |-> [ps EXCEPT ![p] = [c EXCEPT !.events = FALSE]],
             commPorts |-> ApiOnDisconnect(cp, c)]
       ELSE [ports |-> [ps EXCEPT ![p] = c], commPorts |-> cp]

\* ------------------------------------------------------------------ actions

PortIds == DOMAIN ports

\* a caller calls invoke on channel p
Invoke(p) ==
    /\ Len(ports[p].settled) + ports[p].inbound < MaxTraffic
    /\ \E action \in CallerActions, ackTimeout \in AckTimeouts, responseTimeout \in ResponseTimeouts,
          setTimeoutThrows \in BOOLEAN, postMessageThrows \in BOOLEAN :
          ports' = [ports EXCEPT ![p] = PortInvoke(@, action, ackTimeout, responseTimeout,
                                                   setTimeoutThrows, postMessageThrows)]
    /\ UNCHANGED <<commPorts, messageHandlers, requests, returned>>

\* the transport delivers an ack message the peer sent, with any id
ReceiveAck(p, id) ==
    /\ ports[p].eventListeners /\ ports[p].transportOpen
    /\ \E setTimeoutThrows \in BOOLEAN :
          ports' = [ports EXCEPT ![p] =
                       OnMessage(@, messageHandlers, [type |-> "ack", id |-> id],
                                 Null, setTimeoutThrows, FALSE)]
    /\ UNCHANGED <<commPorts, messageHandlers, requests, returned>>

\* the transport delivers a result message the peer sent, with any id
ReceiveResult(p, id, data) ==
    /\ ports[p].eventListeners /\ ports[p].transportOpen
    /\ ports' = [ports EXCEPT ![p] =
                    OnMessage(@, messageHandlers, [type |-> "result", id |-> id, data |-> data],
                              Null, FALSE, FALSE)]
    /\ UNCHANGED <<commPorts, messageHandlers, requests, returned>>

\* the transport delivers the peer's next invoke message
ReceiveInvoke(p) ==
    /\ ports[p].eventListeners /\ ports[p].transportOpen
    /\ Len(ports[p].settled) + ports[p].inbound < MaxTraffic
    /\ \E action \in PeerActions, data \in ResultData, ackThrows \in BOOLEAN, resultThrows \in BOOLEAN :
          ports' = [ports EXCEPT ![p] =
                       OnMessage([@ EXCEPT !.inbound = @ + 1], messageHandlers,
                                 [type |-> "invoke", id |-> ports[p].inbound, action |-> action],
                                 data, ackThrows, resultThrows)]
    /\ UNCHANGED <<commPorts, messageHandlers, requests, returned>>

\* an asynchronous handler calls the completion callback of inbound invoke id
HandlerCallback(p) ==
    /\ \E id \in ports[p].callbacks, data \in ResultData, throws \in BOOLEAN :
          ports' = [ports EXCEPT ![p] =
                       SendResult([@ EXCEPT !.callbacks = @ \ {id}], id, data, throws)]
    /\ UNCHANGED <<commPorts, messageHandlers, requests, returned>>

\* an asynchronous handler calls the completion callback of inbound invoke id
\* and keeps it, so that it can call it again
HandlerCallbackAgain(p) ==
    /\ \E id \in ports[p].callbacks, data \in ResultData, throws \in BOOLEAN :
          /\ Cardinality(Writes(ports[p], "result", id)) + 1 < MaxCallbackCalls
          /\ ports' = [ports EXCEPT ![p] = SendResult(@, id, data, throws)]
    /\ UNCHANGED <<commPorts, messageHandlers, requests, returned>>

\* an armed timer of channel p expires: its callback calls _onError
TimerExpires(p, id) ==
    /\ \E phase \in {"ack", "response"} :
          /\ BagIn(Handle(id, phase), ports[p].timers)
          /\ ports' = [ports EXCEPT ![p] =
                OnError([@ EXCEPT !.timers = @ (-) SetToBag({Handle(id, phase)})], id,
                        NotAnError(IF phase = "ack" THEN "Acknowledgement timeout"
                                   ELSE "Response timeout"))]
    /\ UNCHANGED <<commPorts, messageHandlers, requests, returned>>

\* disconnect() is called on channel p
Disconnect(p) ==
    /\ LET ps == [ports EXCEPT ![p].disconnectCalled = TRUE]
           r == Disconnected(ps, commPorts, p)
       IN ports' = r.ports /\ commPorts' = r.commPorts
    /\ UNCHANGED <<messageHandlers, requests, returned>>

\* the transport of channel p disconnects; its onDisconnect event reaches the
\* channel if the channel still listens
TransportDisconnect(p) ==
    /\ ports[p].transportOpen
    /\ LET ps == [ports EXCEPT ![p].transportOpen = FALSE]
           r == IF ports[p].eventListeners THEN Disconnected(ps, commPorts, p)
                ELSE [ports |-> ps, commPorts |-> commPorts]
       IN ports' = r.ports /\ commPorts' = r.commPorts
    /\ UNCHANGED <<messageHandlers, requests, returned>>

\* a caller calls _getOrCreateCommPort
GetOrCreate(tabId, frameId) ==
    /\ Len(requests) < MaxRequests
    /\ requests' = Append(requests, GetOrCreateCommPort(requests, commPorts, tabId, frameId))
    /\ UNCHANGED <<ports, commPorts, messageHandlers, returned>>

\* the broker establishes the transport request r asked for: the registry's
\* onConnect listener is called with it
BrokerConnects(r) ==
    /\ requests[r].broker = "requested"
    /\ Len(ports) < MaxPorts
    /\ LET s == OnConnect(ports, commPorts,
                          [json |-> TRUE, name |-> "cross-frame-communication-port",
                           otherTabId |-> requests[r].otherTabId,
                           otherFrameId |-> requests[r].otherFrameId])
       IN ports' = s.ports /\ commPorts' = s.commPorts
    /\ requests' = [requests EXCEPT ![r].broker = "connected"]
    /\ UNCHANGED <<messageHandlers, returned>>

\* the broker's future resolves and _createCommPort resumes
BrokerResolves(r) ==
    /\ requests[r].broker = "connected"
    /\ requests' = [requests EXCEPT ![r] = [CreateCommPort(@, commPorts) EXCEPT !.broker = "resolved"]]
    /\ UNCHANGED <<ports, commPorts, messageHandlers, returned>>

\* the broker's future rejects: the call throws the broker's error
BrokerRejects(r) ==
    /\ requests[r].broker = "requested"
    /\ requests' = [requests EXCEPT ![r].broker = "rejected", ![r].pc = "threw"]
    /\ UNCHANGED <<ports, commPorts, messageHandlers, returned>>

\* chrome.runtime.onConnect: a peer-initiated transport arrives
Connect(details) ==
    /\ Len(ports) < MaxPorts
    /\ LET s == OnConnect(ports, commPorts, details)
       IN ports' = s.ports /\ commPorts' = s.commPorts
    /\ UNCHANGED <<messageHandlers, requests, returned>>

\* registerHandlers is called with an iterable of entries
CallRegisterHandlers(entries) ==
    /\ LET r == RegisterHandlers(messageHandlers, entries)
       IN /\ messageHandlers' = r.messageHandlers
          /\ returned' = [returned EXCEPT !.registerHandlers = IF r.threw THEN "threw" ELSE "returned"]
    /\ UNCHANGED <<ports, commPorts, requests>>

\* unregisterHandler is called with a key
CallUnregisterHandler(key) ==
    /\ LET r == UnregisterHandler(messageHandlers, key)
       IN /\ messageHandlers' = r.messageHandlers
          /\ returned' = [returned EXCEPT !.unregisterHandler = IF r.returned THEN "true" ELSE "false"]
    /\ UNCHANGED <<ports, commPorts, requests>>

\* the messages channel c posted in a step that made it c1, as the transport
\* carries them: an invoke message with its action, a result with its data
Posted(c, c1, action, data) ==
    LET log == SubSeq(c1.writes.invoke, Len(c.writes.invoke) + 1, Len(c1.writes.invoke))
                   \o SubSeq(c1.writes.response, Len(c.writes.response) + 1, Len(c1.writes.response))
    IN [i \in DOMAIN log |->
           [type |-> log[i].type, id |-> log[i].id,
            action |-> IF log[i].type = "invoke" THEN action ELSE Null,
            data |-> IF log[i].type = "result" THEN data
                     ELSE [result |-> Null, error |-> Null]]]

\* the other end of the transport of channel p, when two channels share one
OtherEnd(p) == 3 - p

\* channel p became c1 in a step: the messages it posted are queued, in
\* order, for the channel at the other end
Transport(p, c1, action, data) ==
    [ports EXCEPT ![p] = c1,
                  ![OtherEnd(p)].queue = @ \o Posted(ports[p], c1, action, data)]

\* CrossFrameAPI._ackTimeout and _responseTimeout
ApiAckTimeout == "3000 ms"
ApiResponseTimeout == "10000 ms"

\* invokeTab calls invoke on end p, with the registry's two timeouts; the
\* transport accepts every write and setTimeout arms every timer
PairInvoke(p) ==
    /\ Len(ports[p].settled) + Len(ports[OtherEnd(p)].settled) < MaxPairInvokes
    /\ \E action \in PeerActions :
          ports' = Transport(p, PortInvoke(ports[p], action, ApiAckTimeout, ApiResponseTimeout,
                                           FALSE, FALSE), action, Null)
    /\ UNCHANGED <<commPorts, messageHandlers, requests, returned>>

\* the transport delivers to end p the oldest message queued for it; data is
\* what a synchronous handler completes with
PairDeliver(p) ==
    /\ ports[p].eventListeners /\ ports[p].transportOpen
    /\ ports[p].queue # <<>>
    /\ LET details == Head(ports[p].queue)
           c == [ports[p] EXCEPT !.queue = Tail(@),
                                 !.inbound = IF details.type = "invoke" THEN @ + 1 ELSE @]
       IN \E data \in IF details.type = "invoke" /\ details.action \in DOMAIN messageHandlers
                      THEN ResultData
                      ELSE {[result |-> Null, error |-> "Unknown action"]} :
              ports' = Transport(p, OnMessage(c, messageHandlers, details, data, FALSE, FALSE),
                                 Null, data)
    /\ UNCHANGED <<commPorts, messageHandlers, requests, returned>>

\* an asynchronous handler of end p calls the completion callback of an
\* inbound invoke
PairHandlerCallback(p) ==
    /\ \E id \in ports[p].callbacks, data \in ResultData :
          ports' = Transport(p, SendResult([ports[p] EXCEPT !.callbacks = @ \ {id}], id, data, FALSE),
                             Null, data)
    /\ UNCHANGED <<commPorts, messageHandlers, requests, returned>>

\* -------------------------------------------------------- the channel alone

\* the registry after one accepted connection from frame (1, 1), with a
\* synchronous handler registered for "a" and an asynchronous one for "b"
Init ==
    /\ LET r == SetupCommPort(<<>>, <<>>, 1, 1)
       IN ports = r.ports /\ commPorts = r.commPorts
    /\ messageHandlers = ("a" :> [async |-> FALSE]) @@ ("b" :> [async |-> TRUE])
    /\ requests = <<>>
    /\ returned = NoCalls

Next ==
    \/ \E p \in PortIds : Invoke(p)
    \/ \E p \in PortIds, id \in PeerIds : ReceiveAck(p, id)
    \/ \E p \in PortIds, id \in PeerIds, data \in ResultData : ReceiveResult(p, id, data)
    \/ \E p \in PortIds : ReceiveInvoke(p)
    \/ \E p \in PortIds : HandlerCallback(p)
    \/ \E p \in PortIds, id \in PeerIds : TimerExpires(p, id)
    \/ \E p \in PortIds : Disconnect(p)
    \/ \E p \in PortIds : TransportDisconnect(p)

Spec == Init /\ [][Next]_vars

\* the channels of Init
InitPortIds == DOMAIN SetupCommPort(<<>>, <<>>, 1, 1).ports

\* the event loop runs the callback of every armed timer
FairSpec ==
    Spec /\ \A p \in InitPortIds : \A id \in PeerIds : WF_vars(TimerExpires(p, id))

\* ------------------------------------ handlers that keep the callback
\* the channel alone, with handlers that call the completion callback of one
\* inbound invoke more than once
NextHandlers ==
    \/ Next
    \/ \E p \in PortIds : HandlerCallbackAgain(p)

HandlersSpec == Init /\ [][NextHandlers]_vars

\* ---------------------------------------------------------- the registry

\* the registry after its constructor
InitRegistry ==
    /\ ports = <<>>
    /\ commPorts = <<>>
    /\ messageHandlers = <<>>
    /\ requests = <<>>
    /\ returned = NoCalls

NextRegistry ==
    \/ \E tabId \in TabIds, frameId \in FrameIds : GetOrCreate(tabId, frameId)
    \/ \E r \in DOMAIN requests : BrokerConnects(r)
    \/ \E r \in DOMAIN requests : BrokerResolves(r)
    \/ \E r \in DOMAIN requests : BrokerRejects(r)
    \/ \E details \in PortNames : Connect(details)
    \/ \E p \in PortIds : Disconnect(p)
    \/ \E p \in PortIds : TransportDisconnect(p)

RegistrySpec == InitRegistry /\ [][NextRegistry]_vars

\* ------------------------------------------------------ the handler table

NextHandlerTable ==
    \/ \E entries \in HandlerEntries : CallRegisterHandlers(entries)
    \/ \E key \in PeerActions : CallUnregisterHandler(key)

HandlerTableSpec == InitRegistry /\ [][NextHandlerTable]_vars

\* ------------------------------------------- two ends of one transport

\* a registry's channel to frame (1, 1) and, as the second element of ports,
\* the channel that frame's registry holds for the same transport; both ends
\* have the same handlers registered
InitPair ==
    /\ LET r == SetupCommPort(<<>>, <<>>, 1, 1)
       IN /\ ports = Append(r.ports, Prepare(NewCrossFrameAPIPort(1, 2)))
          /\ commPorts = r.commPorts
    /\ messageHandlers = ("a" :> [async |-> FALSE]) @@ ("b" :> [async |-> TRUE])
    /\ requests = <<>>
    /\ returned = NoCalls

NextPair ==
    \/ \E p \in PortIds : PairInvoke(p)
    \/ \E p \in PortIds : PairDeliver(p)
    \/ \E p \in PortIds : PairHandlerCallback(p)
    \/ \E p \in PortIds, id \in PeerIds : TimerExpires(p, id)
    \/ \E p \in PortIds : TransportDisconnect(p)

PairSpec == InitPair /\ [][NextPair]_vars

\* ------------------------------------------------------------ properties

\* the one call of reject an invocation of `action` gets for a message that
\* was not an Error object
Rejection(message, action) ==
    [fn |-> "reject", value |-> [instanceofError |-> TRUE, message |-> message, action |-> action]]

\* the invoke() call whose continuation the tracked invocation id holds
CallOf(c, id) == c.activeInvocations[id].call

\* the timers armed for invocation id
ArmedTimers(c, id) == CopiesIn(Handle(id, "ack"), c.timers) + CopiesIn(Handle(id, "response"), c.timers)

\* C1: the continuation of every invoke() call is called at most once in
\* total, resolve and reject together, whatever messages, timer expiries,
\* send failures and disconnects follow.
AtMostOneContinuationCall ==
    \A p \in PortIds : \A call \in DOMAIN ports[p].settled : Len(ports[p].settled[call]) <= 1

\* a channel with an invocation that was resolved and one that was rejected
SettledBothWays ==
    \E p \in PortIds : \E call1, call2 \in DOMAIN ports[p].settled :
        /\ Len(ports[p].settled[call1]) = 1 /\ ports[p].settled[call1][1].fn = "resolve"
        /\ Len(ports[p].settled[call2]) = 1 /\ ports[p].settled[call2][1].fn = "reject"

\* C3: a disconnect of a connected channel rejects every tracked invocation
\* with the Disconnected error, leaves the table empty, and the table is
\* already empty when the 'disconnect' event is triggered.
DisconnectFailsAll ==
    [][\A p \in PortIds :
          (ports[p].port # Null /\ ports'[p].port = Null) =>
              /\ \A id \in DOMAIN ports[p].activeInvocations :
                    ports'[p].settled[CallOf(ports[p], id)] =
                        <<Rejection("Disconnected", ports[p].activeInvocations[id].action)>>
              /\ DOMAIN ports'[p].activeInvocations = {}
              /\ ports'[p].emitted = <<{}>>]_vars

\* a disconnected channel two of whose invocations were rejected as Disconnected
TwoFailedByDisconnect ==
    \E p \in PortIds :
        /\ ports[p].port = Null
        /\ Cardinality({call \in DOMAIN ports[p].settled :
               ports[p].settled[call] = <<Rejection("Disconnected", "a")>>}) >= 2

\* C4: a result message for a tracked invocation that is not acknowledged
\* rejects it with the "not acknowledged" error and removes it; the payload
\* neither resolves nor rejects it.
ResultBeforeAckRejected ==
    [][\A p \in PortIds : \A id \in PeerIds : \A data \in ResultData :
          ( /\ id \in DOMAIN ports[p].activeInvocations
            /\ ~ports[p].activeInvocations[id].ack
            /\ ReceiveResult(p, id, data) ) =>
              /\ id \notin DOMAIN ports'[p].activeInvocations
              /\ ports'[p].settled[CallOf(ports[p], id)] =
                     <<Rejection("Request not acknowledged", ports[p].activeInvocations[id].action)>>]_vars

\* an invocation was rejected as not acknowledged
RejectedNotAcknowledged ==
    \E p \in PortIds : \E call \in DOMAIN ports[p].settled :
        ports[p].settled[call] = <<Rejection("Request not acknowledged", "a")>>

\* C5: an ack message for a tracked invocation that is already acknowledged
\* rejects it with the "already acknowledged" error, removes it and leaves
\* no timer armed for it.
SecondAckRejected ==
    [][\A p \in PortIds : \A id \in PeerIds :
          ( /\ id \in DOMAIN ports[p].activeInvocations
            /\ ports[p].activeInvocations[id].ack
            /\ ReceiveAck(p, id) ) =>
              /\ id \notin DOMAIN ports'[p].activeInvocations
              /\ ports'[p].settled[CallOf(ports[p], id)] =
                     <<Rejection("Request already acknowledged", ports[p].activeInvocations[id].action)>>
              /\ CallOf(ports[p], id) \notin DOMAIN ports'[p].pending
              /\ ArmedTimers(ports'[p], id) = 0]_vars

\* an invocation was rejected as already acknowledged
RejectedAlreadyAcknowledged ==
    \E p \in PortIds : \E call \in DOMAIN ports[p].settled :
        ports[p].settled[call] = <<Rejection("Request already acknowledged", "a")>>

\* C6: an ack or result message whose id is not in the table changes nothing
\* at all, and an id that was removed from the table is never in it again.
UnknownIdChangesNothing ==
    [][\A p \in PortIds : \A id \in PeerIds :
          /\ ( /\ id \notin DOMAIN ports[p].activeInvocations
               /\ (ReceiveAck(p, id) \/ \E data \in ResultData : ReceiveResult(p, id, data)) )
                 => UNCHANGED vars
          /\ (id < ports[p].invocationId /\ id \notin DOMAIN ports[p].activeInvocations)
                 => id \notin DOMAIN ports'[p].activeInvocations]_vars

\* a listening channel with a removed id, an id never allocated, and a
\* tracked invocation that is acknowledged and owns an armed timer
UnknownIdsBesideTracked ==
    \E p \in PortIds :
        /\ ports[p].eventListeners /\ ports[p].transportOpen
        /\ \E id \in PeerIds : id < ports[p].invocationId /\ id \notin DOMAIN ports[p].activeInvocations
        /\ \E id \in DOMAIN ports[p].activeInvocations :
              ports[p].activeInvocations[id].ack /\ ArmedTimers(ports[p], id) = 1

\* the invoke() calls on channel p whose promise is pending and that were made
\* with a non-null ackTimeout and a non-null responseTimeout
PendingTimed(p) ==
    IF p \notin PortIds THEN {}
    ELSE {call \in DOMAIN ports[p].pending :
             /\ ports[p].pending[call].ackTimeout # Null
             /\ ports[p].pending[call].responseTimeout # Null}

\* C2: every invoke() call made with a non-null ackTimeout and a non-null
\* responseTimeout is eventually resolved or rejected, whatever the peer and
\* the transport do, when armed timers eventually expire: from every state a
\* state is reached in which no such call is pending (a call is pending once,
\* so each of them was settled by then).
TimedInvocationSettles ==
    \A p \in InitPortIds : []<>(PendingTimed(p) = {})

\* an invocation was acknowledged and then rejected by its response timer
RejectedByResponseTimeout ==
    \E p \in PortIds : \E call \in DOMAIN ports[p].settled :
        ports[p].settled[call] = <<Rejection("Response timeout", "a")>>

\* C7 as claimed: for every inbound invoke(id) the channel processed, an
\* ack(id) is on the wire, before every result(id) on the wire.
AckOnWireBeforeResult ==
    \A p \in PortIds : \A id \in 0..(ports[p].inbound - 1) :
        \E i \in Writes(ports[p], "ack", id) :
            /\ ports[p].writes.response[i].accepted
            /\ \A j \in Writes(ports[p], "result", id) :
                  ports[p].writes.response[j].accepted => i < j

\* C7 as amended: for every inbound invoke(id) the channel processed, it
\* called postMessage with ack(id) once, before every postMessage with a
\* result(id); so an ack(id) the transport accepted is on the wire before
\* every result(id).
AckWrittenBeforeResult ==
    \A p \in PortIds : \A id \in 0..(ports[p].inbound - 1) :
        /\ Cardinality(Writes(ports[p], "ack", id)) = 1
        /\ \A i \in Writes(ports[p], "ack", id) : \A j \in Writes(ports[p], "result", id) : i < j

\* the wire carries ack, result for a synchronous or unknown action and ack,
\* then later result for an asynchronous handler
AckThenResultOnWire ==
    \E p \in PortIds : \E id1, id2 \in 0..(ports[p].inbound - 1) :
        /\ id1 # id2
        /\ \A id \in {id1, id2} :
              /\ \E i \in Writes(ports[p], "ack", id) : ports[p].writes.response[i].accepted
              /\ \E j \in Writes(ports[p], "result", id) : ports[p].writes.response[j].accepted
        /\ \E j \in Writes(ports[p], "result", id1) : \E i \in Writes(ports[p], "ack", id2) : i < j

\* the channels that are connected to the frame (tabId, frameId)
ConnectedPorts(tabId, frameId) ==
    {p \in PortIds : /\ ports[p].port # Null
                     /\ ports[p].otherTabId = tabId
                     /\ ports[p].otherFrameId = frameId}

\* C8 as claimed: at most one connected channel exists for any
\* (otherTabId, otherFrameId).
AtMostOneConnectedPortPerKey ==
    \A tabId \in TabIds : \A frameId \in FrameIds : Cardinality(ConnectedPorts(tabId, frameId)) <= 1

\* C9 as claimed: two _getOrCreateCommPort calls for one key, the second
\* started while the first awaited the broker and no channel was registered,
\* return the same channel when both return.
ConcurrentCallsReturnSamePort ==
    \A r1, r2 \in DOMAIN requests :
        (r1 \in requests[r2].concurrent /\ requests[r1].pc = "returned" /\ requests[r2].pc = "returned")
            => requests[r1].commPort = requests[r2].commPort

\* the program state of a channel with what its callers and listeners saw
Observable(c) ==
    <<c.port, c.activeInvocations, c.invocationId, c.eventListeners, c.events,
      c.timers, c.settled, c.pending, c.writes, c.emitted>>

\* C10: a channel has triggered 'disconnect' once if it is disconnected and
\* never before; a disconnect() call or a transport disconnect event on a
\* disconnected channel changes nothing of the channel or the registry.
DisconnectNotifiedOnce ==
    /\ [](\A p \in PortIds : Len(ports[p].emitted) = IF ports[p].port = Null THEN 1 ELSE 0)
    /\ [][\A p \in PortIds :
             (ports[p].port = Null /\ (Disconnect(p) \/ TransportDisconnect(p))) =>
                 /\ Observable(ports'[p]) = Observable(ports[p])
                 /\ commPorts' = commPorts]_vars

\* a channel after disconnect() was called and its transport disconnected too
DisconnectedBothWays ==
    \E p \in PortIds :
        /\ ports[p].port = Null /\ ports[p].disconnectCalled /\ ~ports[p].transportOpen
        /\ Len(ports[p].emitted) = 1
        /\ \E call \in DOMAIN ports[p].settled : Len(ports[p].settled[call]) = 1

\* C11: invoke on a disconnected channel rejects at once with the "Port is
\* disconnected" error and leaves the channel as it was: the next id, the
\* table, the timers and the postMessage calls are unchanged.
InvokeOnDisconnectedRejects ==
    [][\A p \in PortIds :
          (ports[p].port = Null /\ Invoke(p)) =>
              LET call == Len(ports[p].settled) + 1
              IN /\ \E action \in CallerActions :
                       ports'[p].settled =
                           Append(ports[p].settled, <<Rejection("Port is disconnected", action)>>)
                 /\ call \notin DOMAIN ports'[p].pending
                 /\ ports'[p].invocationId = ports[p].invocationId
                 /\ ports'[p].activeInvocations = ports[p].activeInvocations
                 /\ ports'[p].timers = ports[p].timers
                 /\ ports'[p].writes = ports[p].writes
                 /\ ports'[p].port = Null
                 /\ ports'[p].emitted = ports[p].emitted]_vars

\* a disconnected channel that had allocated an id and sent a message, with an
\* invoke() call that was rejected because the channel was disconnected
RejectedPortIsDisconnected ==
    \E p \in PortIds :
        /\ ports[p].port = Null
        /\ ports[p].invocationId > 0
        /\ Len(ports[p].writes.invoke) > 0
        /\ \E call \in DOMAIN ports[p].settled :
              ports[p].settled[call] = <<Rejection("Port is disconnected", "a")>>

\* the one call of resolve an invocation gets for a result value
Resolved(value) ==
    [fn |-> "resolve", value |-> [instanceofError |-> FALSE, message |-> value, action |-> Null]]

\* C12: the two timeouts are sequential phases.  An armed ack timer belongs to
\* a tracked, unacknowledged invocation and an armed response timer to a
\* tracked, acknowledged one; the response timer is armed only by the step
\* that processes the ack; a rejection with "Acknowledgement timeout" happens
\* only to an unacknowledged invocation and one with "Response timeout" only
\* to an acknowledged invocation still in the table (no result was processed);
\* a result without error for an acknowledged invocation resolves it with the
\* result value and leaves no timer armed for it.
TimeoutsAreSequentialPhases ==
    /\ [](\A p \in PortIds : \A id \in PeerIds :
            /\ BagIn(Handle(id, "ack"), ports[p].timers) =>
                  id \in DOMAIN ports[p].activeInvocations /\ ~ports[p].activeInvocations[id].ack
            /\ BagIn(Handle(id, "response"), ports[p].timers) =>
                  id \in DOMAIN ports[p].activeInvocations /\ ports[p].activeInvocations[id].ack)
    /\ [][\A p \in PortIds : \A id \in PeerIds :
             /\ (~BagIn(Handle(id, "response"), ports[p].timers)
                    /\ BagIn(Handle(id, "response"), ports'[p].timers)) =>
                   /\ id \in DOMAIN ports[p].activeInvocations
                   /\ ~ports[p].activeInvocations[id].ack
                   /\ ReceiveAck(p, id)
             /\ id \in DOMAIN ports[p].activeInvocations =>
                   LET invocation == ports[p].activeInvocations[id]
                       settled == ports'[p].settled[invocation.call]
                   IN /\ settled = <<Rejection("Acknowledgement timeout", invocation.action)>>
                            => ~invocation.ack /\ TimerExpires(p, id)
                      /\ settled = <<Rejection("Response timeout", invocation.action)>>
                            => invocation.ack /\ TimerExpires(p, id)
                      /\ \A data \in ResultData :
                            (invocation.ack /\ data.error = Null /\ ReceiveResult(p, id, data)) =>
                                /\ settled = <<Resolved(data.result)>>
                                /\ ArmedTimers(ports'[p], id) = 0]_vars

\* one invocation was rejected by its ack timer, one by its response timer, and
\* one was acknowledged and resolved with the result value
SettledInEachPhase ==
    \E p \in PortIds : \E call1, call2, call3 \in DOMAIN ports[p].settled :
        /\ ports[p].settled[call1] = <<Rejection("Acknowledgement timeout", "a")>>
        /\ ports[p].settled[call2] = <<Rejection("Response timeout", "a")>>
        /\ ports[p].settled[call3] = <<Resolved("value")>>
        /\ ports[p].timers = EmptyBag

\* C13 as claimed: for every inbound invoke(id) the channel calls postMessage
\* with a result(id) at most once, however often the handler calls the
\* completion callback.
OneResultPerInvoke ==
    \A p \in PortIds : \A id \in 0..(ports[p].inbound - 1) :
        Cardinality(Writes(ports[p], "result", id)) <= 1

\* C14: when the write of an invoke message is rejected, or arming the ack
\* timer fails, that invocation alone is rejected and removed: the channel
\* stays connected, no 'disconnect' is triggered, and the other tracked
\* invocations, their timers and the other promises are as they were.
WriteFailureFailsOneInvocation ==
    [][\A p \in PortIds :
          LET call == Len(ports[p].settled) + 1
              id == ports[p].invocationId
          IN ( /\ ports[p].port # Null
               /\ Invoke(p)
               /\ Len(ports'[p].settled[call]) = 1 ) =>
                 /\ \/ ports'[p].settled[call] = <<[fn |-> "reject", value |-> ErrorObject("postMessage failed")]>>
                    \/ \E action \in CallerActions :
                          ports'[p].settled[call] = <<Rejection("Failed to set timeout", action)>>
                 /\ id \notin DOMAIN ports'[p].activeInvocations
                 /\ ArmedTimers(ports'[p], id) = 0
                 /\ ports'[p].port # Null
                 /\ ports'[p].eventListeners = ports[p].eventListeners
                 /\ ports'[p].emitted = <<>>
                 /\ ports'[p].activeInvocations = ports[p].activeInvocations
                 /\ ports'[p].timers = ports[p].timers
                 /\ ports'[p].pending = ports[p].pending
                 /\ SubSeq(ports'[p].settled, 1, Len(ports[p].settled)) = ports[p].settled]_vars

\* a connected channel with an acknowledged invocation that owns an armed
\* timer, beside one invocation rejected for the rejected write and one
\* rejected because its ack timer could not be armed
WriteFailedBesideTracked ==
    \E p \in PortIds :
        /\ ports[p].port # Null
        /\ \E id \in DOMAIN ports[p].activeInvocations :
              ports[p].activeInvocations[id].ack /\ ArmedTimers(ports[p], id) = 1
        /\ \E call \in DOMAIN ports[p].settled :
              ports[p].settled[call] = <<[fn |-> "reject", value |-> ErrorObject("postMessage failed")]>>
        /\ \E call \in DOMAIN ports[p].settled :
              ports[p].settled[call] = <<Rejection("Failed to set timeout", "a")>>

\* C15: a call of a handler's completion callback on a disconnected channel
\* calls postMessage not at all and changes nothing of the channel, of the
\* registry or of the handler table.
CallbackAfterDisconnectIsNoOp ==
    [][\A p \in PortIds :
          (ports[p].port = Null /\ HandlerCallback(p)) =>
              /\ Observable(ports'[p]) = Observable(ports[p])
              /\ ports'[p].inbound = ports[p].inbound
              /\ ports'[p].transportOpen = ports[p].transportOpen
              /\ \A q \in PortIds \ {p} : ports'[q] = ports[q]
              /\ UNCHANGED <<commPorts, messageHandlers, requests>>]_vars

\* a disconnected channel that had acknowledged an inbound invoke whose
\* handler has called the completion callback, with no result written for it:
\* the callback was called after the disconnect
CallbackCalledAfterDisconnect ==
    \E p \in PortIds : \E id \in 0..(ports[p].inbound - 1) :
        /\ ports[p].port = Null
        /\ id \notin ports[p].callbacks
        /\ Writes(ports[p], "ack", id) # {}
        /\ Writes(ports[p], "result", id) = {}

\* C16: no tab id of _commPorts maps to an empty inner map, after any
\* connections and disconnects.
NoEmptyTabPorts ==
    \A tabId \in DOMAIN commPorts : DOMAIN commPorts[tabId] # {}

\* the registry after channels to two frames of one tab were registered and
\* both disconnected: the tab's entry was pruned
TabPortsPruned ==
    /\ commPorts = <<>>
    /\ \E p, q \in PortIds :
          /\ ports[p].otherFrameId # ports[q].otherFrameId
          /\ ports[p].port = Null /\ ports[q].port = Null
          /\ ~ports[p].events /\ ~ports[q].events

\* C17: a registerHandlers call whose entries name a key of the table throws,
\* and no registerHandlers call changes the handler of a key the table has;
\* unregisterHandler of an absent key returns false and leaves the table
\* unchanged, and of a present key returns true and removes that entry only.
HandlerTableKeepsRegistered ==
    [][/\ \A entries \in HandlerEntries :
             CallRegisterHandlers(entries) =>
                 /\ \A key \in DOMAIN messageHandlers :
                       key \in DOMAIN messageHandlers' /\ messageHandlers'[key] = messageHandlers[key]
                 /\ (\E i \in DOMAIN entries : entries[i][1] \in DOMAIN messageHandlers)
                       => returned'.registerHandlers = "threw"
       /\ \A key \in PeerActions :
             CallUnregisterHandler(key) =>
                 IF key \in DOMAIN messageHandlers
                 THEN /\ returned'.unregisterHandler = "true"
                      /\ DOMAIN messageHandlers' = DOMAIN messageHandlers \ {key}
                      /\ \A k \in DOMAIN messageHandlers' : messageHandlers'[k] = messageHandlers[k]
                 ELSE /\ returned'.unregisterHandler = "false"
                      /\ messageHandlers' = messageHandlers]_vars

\* a table with a handler, after a registerHandlers call that threw and an
\* unregisterHandler call that returned false
RegisterThrewUnregisterFalse ==
    /\ returned.registerHandlers = "threw"
    /\ returned.unregisterHandler = "false"
    /\ DOMAIN messageHandlers # {}

\* C18 as claimed: when a channel's 'disconnect' is handled, every other
\* connected channel that is registered under its key is still registered
\* under it.
DisconnectRemovesOnlyThatPort ==
    [][\A p \in PortIds :
          (ports[p].port # Null /\ ports'[p].port = Null) =>
              \A q \in PortIds \ {p} :
                  ( /\ ports[q].port # Null
                    /\ GetCommPort(commPorts, ports[q].otherTabId, ports[q].otherFrameId) = q )
                      => GetCommPort(commPorts', ports[q].otherTabId, ports[q].otherFrameId) = q]_vars

\* C19: at most one timer is armed for an invocation id that is in the table
\* and none for an id that is not; so the callback of a timer never runs for
\* an invocation that was resolved or rejected.
OneTimerPerTrackedInvocation ==
    /\ [](\A p \in PortIds : \A id \in PeerIds :
            ArmedTimers(ports[p], id) <= IF id \in DOMAIN ports[p].activeInvocations THEN 1 ELSE 0)
    /\ [][\A p \in PortIds : \A id \in PeerIds :
             TimerExpires(p, id) =>
                 /\ id \in DOMAIN ports[p].activeInvocations
                 /\ ports[p].settled[CallOf(ports[p], id)] = <<>>]_vars

\* a channel with an invocation that owns an armed timer, one that owns none,
\* and one that was acknowledged, resolved and removed
TimersBesideResolved ==
    \E p \in PortIds :
        /\ \E id \in DOMAIN ports[p].activeInvocations : ArmedTimers(ports[p], id) = 1
        /\ \E id \in DOMAIN ports[p].activeInvocations : ArmedTimers(ports[p], id) = 0
        /\ \E id \in 0..(ports[p].invocationId - 1) : id \notin DOMAIN ports[p].activeInvocations
        /\ \E call \in DOMAIN ports[p].settled : ports[p].settled[call] = <<Resolved("value")>>

\* C20: when both ends of a transport run this channel and the transport
\* delivers in order, exactly once and accepts every write, no invoke() call
\* of either end is rejected as "already acknowledged" or "not acknowledged".
NoProtocolViolation ==
    \A p \in PortIds : \A call \in DOMAIN ports[p].settled :
        \A i \in DOMAIN ports[p].settled[call] :
            ports[p].settled[call][i].value.message
                \notin {"Request already acknowledged", "Request not acknowledged"}

\* one end was resolved by the other's handler while the other end's own
\* invocation timed out, and the ack and the result that came late for it
\* were delivered
LateResponsesDelivered ==
    \E p \in PortIds : \E call1 \in DOMAIN ports[p].settled :
        \E call2 \in DOMAIN ports[OtherEnd(p)].settled :
            /\ ports[p].settled[call1] = <<Resolved("value")>>
            /\ \E action \in PeerActions :
                  ports[OtherEnd(p)].settled[call2] = <<Rejection("Acknowledgement timeout", action)>>
            /\ ports[OtherEnd(p)].invocationId = 1
            /\ Writes(ports[p], "ack", 0) # {} /\ Writes(ports[p], "result", 0) # {}
            /\ ports[OtherEnd(p)].queue = <<>>
            /\ ports[OtherEnd(p)].port # Null

====
